---- MODULE Spec2Model ----
(***************************************************************************)
(* AgentBTO client and its budget / affordability contracts.               *)
(*                                                                         *)
(* Six groups of state, each driven by its own specifications:             *)
(*   SpecBudget  the budget request: BudgetCard.calculateBudget,           *)
(*               BTOEstimators.handleBudgetEstimator and a direct          *)
(*               POST /budget call, against compute_total_budget.          *)
(*   SpecAfford  one affordability check as a function of its inputs.      *)
(*   Spec        the Results page with its AffordabilityCard.              *)
(*   SpecRecalc  the earlier Results page, whose BudgetCard changes the    *)
(*               AffordabilityCard's budget more than once.                *)
(*   SpecTransport  the Results page with its TransportCard.               *)
(*   SpecPure    the two endpoints called repeatedly.                      *)
(*   SpecSelection  BTOEstimators: the listings, the selection and the     *)
(*               saved selection.                                          *)
(*                                                                         *)
(* The FastAPI backend (backend/main.py, agents/*.py) is not among the     *)
(* sources; the operators compute_total_budget, max_hdb_loan_from_income,  *)
(* total_hdb_budget and assess_affordability_with_budget are written from  *)
(* the specification's sections 3, 4 and 6 and from the README's API list. *)
(***************************************************************************)
EXTENDS Integers, Sequences, FiniteSets, Bags, TLC

VARIABLES
    page,        \* which budget client, or which Results page, is on screen
    bc,          \* BudgetCard: its useState cells and the request in flight
    est,         \* BTOEstimators: the budget form, its output, the request in flight
    api,         \* a direct POST /budget call: body and response
    picker,      \* BTOEstimators: listings, selection, saved selection, localStorage
    call,        \* SpecAfford: one affordability check, what it reads and its outcome
    resultsPage, \* Results: the budget request and its useState cells
    card,        \* AffordabilityCard: props and useState cells
    timers,      \* the auto-run timers not yet fired, each with its closure
    flights,     \* the checkAffordability calls awaiting a response
    transport,   \* TransportCard: props, useState cells, timers, requests in flight
    service      \* SpecPure: the last call of the service, an earlier one, the session

budgetVars == <<page, bc, est, api, picker>>

affordVars == <<call>>

uiVars == <<resultsPage, card, timers, flights>>

transportVars == <<transport>>

pureVars == <<service>>

vars == <<page, bc, est, api, picker, call, resultsPage, card, timers, flights,
         transport, service>>

----------------------------------------------------------------------------
(* JavaScript values                                                       *)

\* A form field holds a string: empty, a decimal number, or other text.
EmptyField == [kind |-> "empty", digits |-> 0]

TextField == [kind |-> "text", digits |-> 0]

NumField(v) == [kind |-> "num", digits |-> v]

\* A JavaScript number that may be NaN.
NaN == [nan |-> TRUE, val |-> 0]

Num(v) == [nan |-> FALSE, val |-> v]

\* A field of a JSON body that was left out.
Absent == [nan |-> TRUE, val |-> -1]

\* parseFloat(string): NaN for "" and for text that does not start with a number.
parseFloat(f) == IF f.kind = "num" THEN Num(f.digits) ELSE NaN

\* !value for a string: true only for the empty string ("0" is truthy).
IsEmptyString(f) == f.kind = "empty"

Max(a, b) == IF a >= b THEN a ELSE b

----------------------------------------------------------------------------
(* Backend: POST /budget                                                   *)

\* total_hdb_budget(..., retain_oa_amount=20000.0)
DefaultRetainOA == 20000

\* share of the monthly income that may service the loan, in percent
LoanServicePercent == 30

\* present value of 1 per month over 25 years at 3% a year, times 1000
AnnuityFactorMilli == 210876

\* max_hdb_loan_from_income(income, annual_rate=0.03, years=25)
max_hdb_loan_from_income(monthly) ==
    (((monthly * LoanServicePercent) \div 100) * AnnuityFactorMilli) \div 1000

\* CPF usable = max(cpf_savings - retain_oa_amount, 0)
cpf_usable(savings, keep) == Max(savings - keep, 0)

\* total_hdb_budget(cash_savings, cpf_savings, max_loan, retain_oa_amount)
total_hdb_budget(liquid, savings, loan, keep) ==
    liquid + cpf_usable(savings, keep) + loan

\* The JSON body of POST /budget
BudgetBody(hi, cs, cp, ro) ==
    [household_income |-> hi, cash_savings |-> cs,
     cpf_savings |-> cp, retain_oa_amount |-> ro]

\* A numeric field of the request body is valid when it is a number >= 0.
ValidAmount(x) == ~x.nan /\ x.val >= 0

BudgetFailure ==
    [ok |-> FALSE, max_hdb_loan |-> 0, total_budget |-> 0,
     cpf_used_in_budget |-> 0, retained_oa |-> 0]

\* compute_total_budget behind POST /budget: InvalidInput (a non-OK response) on
\* a negative or non-numeric field, otherwise the BudgetResult.  A body without
\* retain_oa_amount gets the default.
compute_total_budget(req) ==
    LET retainGiven == req.retain_oa_amount # Absent
        keep == IF retainGiven THEN req.retain_oa_amount.val ELSE DefaultRetainOA
        loan == max_hdb_loan_from_income(req.household_income.val)
    IN  IF \/ ~ValidAmount(req.household_income)
           \/ ~ValidAmount(req.cash_savings)
           \/ ~ValidAmount(req.cpf_savings)
           \/ (retainGiven /\ ~ValidAmount(req.retain_oa_amount))
        THEN BudgetFailure
        ELSE [ok |-> TRUE,
              max_hdb_loan |-> loan,
              total_budget |-> total_hdb_budget(req.cash_savings.val,
                                  req.cpf_savings.val, loan, keep),
              cpf_used_in_budget |-> cpf_usable(req.cpf_savings.val, keep),
              retained_oa |-> req.cpf_savings.val
                                - cpf_usable(req.cpf_savings.val, keep)]

\* What a fetch of /budget may deliver: the server's response, or a network error.
NetworkError == [ok |-> FALSE, max_hdb_loan |-> -1, total_budget |-> -1,
                 cpf_used_in_budget |-> -1, retained_oa |-> -1]

----------------------------------------------------------------------------
(* Input sets of SpecBudget                                                *)

IncomeValues == {-9000, 0, 9000}

CashValues == {-1, 0, 50000}

CpfValues == {-1, 15000, 20000, 120000}

RetainValues == {-1, 0, 20000, 50000}

IncomeFields == {EmptyField, TextField} \cup {NumField(v) : v \in IncomeValues}

CashFields == {EmptyField, TextField} \cup {NumField(v) : v \in CashValues}

CpfFields == {EmptyField, TextField} \cup {NumField(v) : v \in CpfValues}

NoBody == BudgetBody(Absent, Absent, Absent, Absent)

----------------------------------------------------------------------------
(* BudgetCard (the card with its own form)                                 *)

\* useState cells of BudgetCard; pending: the fetch is in flight; body: the body
\* of the latest request; lastClick, stored: what the latest click did.
BudgetCardInit ==
    [monthlyIncome |-> EmptyField, cpfSavings |-> EmptyField,
     cashSavings |-> EmptyField, isLoading |-> FALSE, error |-> FALSE,
     hasBudget |-> FALSE, budget |-> BudgetFailure,
     pending |-> FALSE, body |-> NoBody, lastClick |-> "none", stored |-> FALSE]

\* A slip the guard invites: testing the parsed numbers, so that 0 counts as missing.
calculateBudgetReturnsEarly_zeroIsMissing(s) ==
    \/ parseFloat(s.monthlyIncome).nan \/ parseFloat(s.monthlyIncome).val = 0
    \/ parseFloat(s.cpfSavings).nan \/ parseFloat(s.cpfSavings).val = 0
    \/ parseFloat(s.cashSavings).nan \/ parseFloat(s.cashSavings).val = 0

\* if (!monthlyIncome || !cpfSavings || !cashSavings) return;
calculateBudgetReturnsEarly(s) ==
    \/ IsEmptyString(s.monthlyIncome)
    \/ IsEmptyString(s.cpfSavings)
    \/ IsEmptyString(s.cashSavings)

\* The same body with cash_savings and cpf_savings exchanged.
calculateBudgetBody_swapped(s) ==
    BudgetBody(parseFloat(s.monthlyIncome), parseFloat(s.cpfSavings),
               parseFloat(s.cashSavings), Absent)

\* The body calculateBudget posts: JSON.stringify writes NaN as null.
calculateBudgetBody(s) ==
    BudgetBody(parseFloat(s.monthlyIncome), parseFloat(s.cashSavings),
               parseFloat(s.cpfSavings), Absent)

\* onChange of the three inputs (lastClick, body and stored describe the click
\* made with the present field contents, so an edit resets them)
SetMonthlyIncome(f) ==
    /\ page = "BudgetCard"
    /\ ~bc.pending
    /\ bc' = [bc EXCEPT !.monthlyIncome = f, !.lastClick = "none",
                          !.body = NoBody, !.stored = FALSE]
    /\ UNCHANGED <<page, est, api, picker, affordVars, uiVars, transportVars, pureVars>>

SetCpfSavings(f) ==
    /\ page = "BudgetCard"
    /\ ~bc.pending
    /\ bc' = [bc EXCEPT !.cpfSavings = f, !.lastClick = "none",
                          !.body = NoBody, !.stored = FALSE]
    /\ UNCHANGED <<page, est, api, picker, affordVars, uiVars, transportVars, pureVars>>

SetCashSavings(f) ==
    /\ page = "BudgetCard"
    /\ ~bc.pending
    /\ bc' = [bc EXCEPT !.cashSavings = f, !.lastClick = "none",
                          !.body = NoBody, !.stored = FALSE]
    /\ UNCHANGED <<page, est, api, picker, affordVars, uiVars, transportVars, pureVars>>

\* calculateBudget up to its await: the early return, or the request is sent.
CalculateBudget ==
    /\ page = "BudgetCard"
    /\ ~bc.isLoading
    /\ IF calculateBudgetReturnsEarly(bc)
       THEN bc' = [bc EXCEPT !.lastClick = "early", !.body = NoBody,
                             !.stored = FALSE]
       ELSE bc' = [bc EXCEPT !.lastClick = "sent", !.stored = FALSE,
                             !.isLoading = TRUE, !.error = FALSE,
                             !.pending = TRUE, !.body = calculateBudgetBody(bc)]
    /\ UNCHANGED <<page, est, api, picker, affordVars, uiVars, transportVars, pureVars>>

\* calculateBudget after its await: res.ok is checked before the body is stored.
calculateBudgetSettle(s, res) ==
    IF res.ok
    THEN [s EXCEPT !.hasBudget = TRUE, !.budget = res, !.stored = TRUE,
                   !.isLoading = FALSE, !.pending = FALSE]
    ELSE [s EXCEPT !.error = TRUE, !.isLoading = FALSE, !.pending = FALSE]

CalculateBudgetResponse ==
    /\ page = "BudgetCard"
    /\ bc.pending
    /\ \E res \in {compute_total_budget(bc.body), NetworkError} :
          bc' = calculateBudgetSettle(bc, res)
    /\ UNCHANGED <<page, est, api, picker, affordVars, uiVars, transportVars, pureVars>>

----------------------------------------------------------------------------
(* BTOEstimators.handleBudgetEstimator (the budget form of the test page)  *)

EstimatorInit ==
    [pending |-> FALSE, body |-> NoBody, isBudgetLoading |-> FALSE,
     shown |-> "none", income |-> NaN, cash |-> NaN, cpf |-> NaN,
     maxLoan |-> 0, cpfUsed |-> 0, total |-> 0, retained |-> 0]

\* retain_oa_amount: 20000 of the request body
EstimatorRetainOA == 20000

\* axios.post(`${API_BASE}/budget`, {...})
handleBudgetEstimatorBody(hi, cs, cp) ==
    BudgetBody(hi, cs, cp, Num(EstimatorRetainOA))

\* The fallback without its clamp at 0.
cpfUsedFallback_unclamped(cp) == cp.val - 20000

\* The fallback of the output's second line: Math.max(cpf - 20000, 0)
cpfUsedFallback(cp) == Max(cp.val - 20000, 0)

\* onSubmit of the form (inputs are type="number" and required) up to the await
HandleBudgetEstimator(fi, fc, fp) ==
    /\ page = "BTOEstimators"
    /\ ~est.isBudgetLoading
    /\ est' = [est EXCEPT !.isBudgetLoading = TRUE, !.pending = TRUE,
                          !.shown = "calculating",
                          !.income = parseFloat(fi), !.cash = parseFloat(fc),
                          !.cpf = parseFloat(fp),
                          !.body = handleBudgetEstimatorBody(parseFloat(fi),
                                        parseFloat(fc), parseFloat(fp))]
    /\ UNCHANGED <<page, bc, api, picker, affordVars, uiVars, transportVars, pureVars>>

\* after the await: axios throws on a non-2xx response and on a network error
HandleBudgetEstimatorResponse ==
    /\ page = "BTOEstimators"
    /\ est.pending
    /\ \E res \in {compute_total_budget(est.body), NetworkError} :
          est' = IF res.ok
                 THEN [est EXCEPT !.shown = "budget", !.maxLoan = res.max_hdb_loan,
                                  !.cpfUsed = res.cpf_used_in_budget,
                                  !.total = res.total_budget,
                                  !.retained = res.retained_oa,
                                  !.isBudgetLoading = FALSE, !.pending = FALSE]
                 ELSE [est EXCEPT !.shown = "error",
                                  !.isBudgetLoading = FALSE, !.pending = FALSE]
    /\ UNCHANGED <<page, bc, api, picker, affordVars, uiVars, transportVars, pureVars>>

----------------------------------------------------------------------------
(* BTOEstimators: the listings, the selection and the saved selection      *)

\* One item of /bto_listings; "" stands for a missing projectId or town, and
\* flatType is given as its comma-separated parts.  region, stage and
\* ballotQtr are copied like lat and lng and are left out.
BtoItem(pid, tn, ft, la, ln) ==
    [projectId |-> pid, town |-> tn, flatType |-> ft, lat |-> la, lng |-> ln]

\* item.projectId || `${item.town}-${item.lat}-${item.lng}`
listingId(item) ==
    IF item.projectId # "" THEN <<item.projectId>>
    ELSE <<item.town, item.lat, item.lng>>

\* item.town || "Unknown"
townKey(item) == IF item.town # "" THEN item.town ELSE "Unknown"

\* The object pushed under the town.
minimal(item) ==
    [projectId |-> item.projectId, flatType |-> item.flatType,
     lat |-> item.lat, lng |-> item.lng]

\* selectedByTown keeping one listing per town: map[key] = [minimal] in place
\* of the push.
selectedByTown_lastPerTown(listings, ids) ==
    LET chosen == SelectSeq(listings, LAMBDA it : listingId(it) \in ids)
    IN  [k \in {townKey(chosen[i]) : i \in 1..Len(chosen)} |->
            LET under == SelectSeq(chosen, LAMBDA it : townKey(it) = k)
            IN  <<minimal(under[Len(under)])>>]

\* selectedByTown: the selected items of btoListings, in their order, under
\* their town.
selectedByTown(listings, ids) ==
    LET chosen == SelectSeq(listings, LAMBDA it : listingId(it) \in ids)
    IN  [k \in {townKey(chosen[i]) : i \in 1..Len(chosen)} |->
            LET under == SelectSeq(chosen, LAMBDA it : townKey(it) = k)
            IN  [i \in 1..Len(under) |-> minimal(under[i])]]

\* JSON.stringify of one pushed object: a property whose value is undefined
\* is dropped.
stringifyMinimal(m) ==
    IF m.projectId = ""
    THEN <<"flatType", m.flatType, "lat", m.lat, "lng", m.lng>>
    ELSE <<"projectId", m.projectId, "flatType", m.flatType,
           "lat", m.lat, "lng", m.lng>>

\* JSON.stringify(selectedByTown)
stringify(byTown) ==
    [k \in DOMAIN byTown |->
        [i \in 1..Len(byTown[k]) |-> stringifyMinimal(byTown[k][i])]]

\* toggleSelect's updater.
toggleSelect(ids, id) == IF id \in ids THEN ids \ {id} ELSE ids \cup {id}

\* The useState cells, and the localStorage entry selected_btos_by_town
\* (written: whether there is one).
PickerState(bl, lo, si, ft, sv, wr, en) ==
    [btoListings |-> bl, isLoadingListings |-> lo, selectedIds |-> si,
     selectedFlatType |-> ft, savedByTown |-> sv, written |-> wr,
     entry |-> en]

PickerIdle == PickerState(<<>>, FALSE, {}, "", <<>>, FALSE, <<>>)

\* After the mount effect: loadBtoListings is running.
PickerMounted == PickerState(<<>>, TRUE, {}, "", <<>>, FALSE, <<>>)

\* What /bto_listings may return.
Catalogues ==
    {<<BtoItem("P1", "Bedok", <<"3-Room", "4-Room">>, "1.32", "103.93"),
       BtoItem("", "Bedok", <<"4-Room">>, "1.33", "103.94"),
       BtoItem("P3", "", <<"3-Room">>, "1.35", "103.85")>>,
     <<BtoItem("P3", "", <<"3-Room">>, "1.35", "103.85"),
       BtoItem("P1", "Bedok", <<"3-Room", "4-Room">>, "1.32", "103.93")>>}

\* flatTypeOptions: the parts of the listings' flatType strings.
flatTypeOptions(listings) ==
    UNION {{listings[i].flatType[j] : j \in 1..Len(listings[i].flatType)} :
              i \in 1..Len(listings)}

\* loadBtoListings is answered: the listings, or [] after an error.
LoadBtoListingsResponse(ok, cat) ==
    /\ page = "BTOEstimators"
    /\ picker.isLoadingListings
    /\ picker' = [picker EXCEPT !.btoListings = IF ok THEN cat ELSE <<>>,
                                !.isLoadingListings = FALSE]
    /\ UNCHANGED <<page, bc, est, api, affordVars, uiVars, transportVars, pureVars>>

\* The Refresh BTO Listings button: disabled={isLoadingListings}
RefreshListings ==
    /\ page = "BTOEstimators"
    /\ ~picker.isLoadingListings
    /\ picker' = [picker EXCEPT !.isLoadingListings = TRUE]
    /\ UNCHANGED <<page, bc, est, api, affordVars, uiVars, transportVars, pureVars>>

\* The Select button of a map marker or the checkbox of a listed item.
ToggleSelect(i) ==
    /\ page = "BTOEstimators"
    /\ i \in 1..Len(picker.btoListings)
    /\ picker' = [picker EXCEPT !.selectedIds =
                      toggleSelect(@, listingId(picker.btoListings[i]))]
    /\ UNCHANGED <<page, bc, est, api, affordVars, uiVars, transportVars, pureVars>>

\* The flat type select.
SetSelectedFlatType(ft) ==
    /\ page = "BTOEstimators"
    /\ ft # picker.selectedFlatType
    /\ picker' = [picker EXCEPT !.selectedFlatType = ft]
    /\ UNCHANGED <<page, bc, est, api, affordVars, uiVars, transportVars, pureVars>>

\* saveSelection; ok: localStorage.setItem did not throw (a throw is caught
\* and dropped).
saveSelection(pk, ok) ==
    LET byTown == selectedByTown(pk.btoListings, pk.selectedIds)
    IN  IF ok
        THEN [pk EXCEPT !.savedByTown = byTown, !.written = TRUE,
                        !.entry = stringify(byTown)]
        ELSE [pk EXCEPT !.savedByTown = byTown]

\* The Save Selection button.
SaveSelection(ok) ==
    /\ page = "BTOEstimators"
    /\ picker' = saveSelection(picker, ok)
    /\ UNCHANGED <<page, bc, est, api, affordVars, uiVars, transportVars, pureVars>>

----------------------------------------------------------------------------
(* POST /budget called directly, with any body                             *)

ApiInit == [body |-> NoBody, res |-> BudgetFailure, called |-> FALSE]

BodyNumbers(values) == {NaN} \cup {Num(v) : v \in values}

PostBudget(req) ==
    /\ page = "api"
    /\ api' = [body |-> req, res |-> compute_total_budget(req), called |-> TRUE]
    /\ UNCHANGED <<page, bc, est, picker, affordVars, uiVars, transportVars, pureVars>>

----------------------------------------------------------------------------
(* Backend: POST /affordability                                            *)

\* One (name, price) pair of a request, one estimate of a response.
Listing(nm, pr) == [name |-> nm, price |-> pr]

\* One element of the response's results.
AffordabilityItem(nm, pr, st, sf) ==
    [name |-> nm, price |-> pr, affordability_status |-> st, shortfall |-> sf]

\* assess_affordability_with_budget(total_budget, bto_price) for one listing
\* whose price is a number: shortfall = max(price - total_budget, 0), and
\* "Affordable" when the shortfall is 0.
assess_affordability_with_budget(total, l) ==
    LET sf == Max(l.price.val - total, 0)
    IN  AffordabilityItem(l.name, l.price,
            IF sf = 0 THEN "Affordable" ELSE "Not Affordable", sf)

\* A listing whose price is missing or not a number fails alone.
InvalidInputItem(l) == AffordabilityItem(l.name, l.price, "InvalidInput", 0)

\* The handler of POST /affordability: one element per listing, in order.
post_affordability(total, btos) ==
    [i \in 1..Len(btos) |->
        IF btos[i].price.nan
        THEN InvalidInputItem(btos[i])
        ELSE assess_affordability_with_budget(total, btos[i])]

----------------------------------------------------------------------------
(* AffordabilityCard.checkAffordability as a function of what it reads     *)

\* The largest number of listings in one check.
MaxListings == 2

ListingNames == {"Toa Payoh", "Bedok"}

PriceValues == {0, 450000, 520000}

BudgetValues == {0, 450000, 500000}

\* Estimates of /cost_estimates: estimatedPrice is a number, or is not one.
Estimates == {Listing(nm, pr) : nm \in ListingNames,
                                pr \in {NaN} \cup {Num(v) : v \in PriceValues}}

Batches == UNION {[1..k -> Estimates] : k \in 0..MaxListings}

\* totalBudget is a number or undefined.
TotalBudgets == {Absent} \cup {Num(v) : v \in BudgetValues}

\* !totalBudget: undefined, NaN and 0 are falsy.
IsFalsyNumber(x) == x.nan \/ x.val = 0

\* The filter letting every estimate through.
btosWithPrices_unfiltered(estimates) == estimates

\* The filter giving up the whole batch when one estimate is not a number.
btosWithPrices_allOrNothing(estimates) ==
    IF \E i \in 1..Len(estimates) : estimates[i].price.nan
    THEN <<>>
    ELSE estimates

\* The filter replaced by a default price of 0 for a missing estimate.
btosWithPrices_zeroFilled(estimates) ==
    [i \in 1..Len(estimates) |->
        IF estimates[i].price.nan
        THEN Listing(estimates[i].name, Num(0))
        ELSE estimates[i]]

\* The filter written as a truthiness test, which also drops a price of 0.
btosWithPrices_truthy(estimates) ==
    SelectSeq(estimates, LAMBDA r : ~IsFalsyNumber(r.price))

\* Object.values(estJson.results).filter(typeof estimatedPrice === 'number').map(...)
btosWithPrices(estimates) ==
    SelectSeq(estimates, LAMBDA r : ~r.price.nan)

\* The earlier version posts the selected BTOs with the prices stored on them.
selectedWithStoredPrices(selected) == selected

\* One check: what it reads (totalBudget, batch, whether the two requests
\* answer OK) and what the card holds afterwards (the error message set, the
\* listings sent to /affordability, the results cell).
CallRecord(vr, tb, bt, eo, ao, er, st, hr, rs) ==
    [error |-> er, sent |-> st, version |-> vr, totalBudget |-> tb,
     batch |-> bt, estOk |-> eo, affOk |-> ao, hasResults |-> hr,
     results |-> rs]

\* Before the check: error and results are null.
Unchecked(tb, bt, eo, ao) ==
    CallRecord("none", tb, bt, eo, ao, "none", <<>>, FALSE, <<>>)

CallInit == Unchecked(Absent, <<>>, TRUE, TRUE)

\* The outcome of a check by the component version vr.
Outcome(c, vr, er, st, hr, rs) ==
    CallRecord(vr, c.totalBudget, c.batch, c.estOk, c.affOk, er, st, hr, rs)

\* checkAffordability of the present AffordabilityCard, from the click to the
\* finally block.
checkAffordability(c) ==
    IF IsFalsyNumber(c.totalBudget)
    THEN Outcome(c, "present", "budgetFirst", <<>>, FALSE, <<>>)
    ELSE IF Len(c.batch) = 0
    THEN Outcome(c, "present", "addBTO", <<>>, FALSE, <<>>)
    ELSE IF ~c.estOk \/ Len(btosWithPrices(c.batch)) = 0
    THEN Outcome(c, "present", "failed", <<>>, FALSE, <<>>)
    ELSE IF ~c.affOk
    THEN Outcome(c, "present", "failed", btosWithPrices(c.batch), FALSE, <<>>)
    ELSE Outcome(c, "present", "none", btosWithPrices(c.batch), TRUE,
                 post_affordability(c.totalBudget.val, btosWithPrices(c.batch)))

\* checkAffordability of the earlier AffordabilityCard: no estimate request,
\* a silent return without budget or selection.
checkAffordabilityEarlier(c) ==
    IF IsFalsyNumber(c.totalBudget) \/ Len(c.batch) = 0
    THEN Outcome(c, "earlier", "none", <<>>, FALSE, <<>>)
    ELSE IF ~c.affOk
    THEN Outcome(c, "earlier", "failed", selectedWithStoredPrices(c.batch),
                 FALSE, <<>>)
    ELSE Outcome(c, "earlier", "none", selectedWithStoredPrices(c.batch), TRUE,
                 post_affordability(c.totalBudget.val,
                                    selectedWithStoredPrices(c.batch)))

\* The results block is rendered: results && results.length > 0
showsResults(c) == c.hasResults /\ Len(c.results) > 0

\* The card of a result is green: affordability_status === "Affordable"
markedAffordable(r) == r.affordability_status = "Affordable"

\* The warning shown also at a shortfall of 0.
showsShortfallWarning_atZero(r) == r.shortfall >= 0

\* The red shortfall warning: result.shortfall > 0
showsShortfallWarning(r) == r.shortfall > 0

CheckAffordability ==
    /\ call.version = "none"
    /\ call' = checkAffordability(call)
    /\ UNCHANGED <<budgetVars, uiVars, transportVars, pureVars>>

CheckAffordabilityEarlier ==
    /\ call.version = "none"
    /\ call' = checkAffordabilityEarlier(call)
    /\ UNCHANGED <<budgetVars, uiVars, transportVars, pureVars>>

\* POST /affordability called directly, also with no listing at all.
PostAffordability ==
    /\ call.version = "none"
    /\ ~call.totalBudget.nan
    /\ call' = Outcome(call, "api", "none", call.batch, TRUE,
                       post_affordability(call.totalBudget.val, call.batch))
    /\ UNCHANGED <<budgetVars, uiVars, transportVars, pureVars>>


----------------------------------------------------------------------------
(* Results page (budget effect) with its AffordabilityCard                 *)

\* formData.budget of the navigation state: parseFloat of the popup's fields.
FormIncomes == {-9000, 0, 9000}

FormCash == {0}

FormCpf == {15000}

\* The name of location.state.btoProject when one was chosen.
DefaultBTOName == "Toa Payoh"

\* The body of the page's POST /budget: it carries no retain_oa_amount.
resultsBudgetBody(fi, fc, fp) == BudgetBody(Num(fi), Num(fc), Num(fp), Absent)

\* The page's useState cells, the budget request in flight, and how the
\* request was answered ("ok", "rejected" = non-OK response, "network").
ResultsState(fb, bp, bl, be, hb, br, an) ==
    [formBudget |-> fb, budgetPending |-> bp, budgetLoading |-> bl,
     budgetError |-> be, hasBudgetResult |-> hb, budgetResult |-> br,
     answered |-> an]

\* No formData.budget: the effect sends nothing.
ResultsIdle == ResultsState(NoBody, FALSE, FALSE, FALSE, FALSE, BudgetFailure, "none")

\* After the mount effect: setBudgetLoading(true) and the fetch.
ResultsMounted(fb) == ResultsState(fb, TRUE, TRUE, FALSE, FALSE, BudgetFailure, "none")

\* .then(res => res.json()).then(data => ...): any response whose body is
\* JSON is stored, OK or not.
budgetThen(r, data) ==
    [r EXCEPT !.budgetPending = FALSE, !.budgetLoading = FALSE,
              !.hasBudgetResult = TRUE, !.budgetResult = data,
              !.answered = IF data.ok THEN "ok" ELSE "rejected"]

\* .catch: the fetch rejected or the body was not JSON.
budgetCatch(r) ==
    [r EXCEPT !.budgetPending = FALSE, !.budgetLoading = FALSE,
              !.budgetError = TRUE, !.answered = "network"]

\* What the Budget Analysis box shows.
budgetDisplay(r) ==
    IF r.budgetLoading THEN "loading"
    ELSE IF r.budgetError THEN "error"
    ELSE IF r.hasBudgetResult THEN "success"
    ELSE "none"

\* totalBudget={budgetResult?.total_budget}: an error body has no such field.
totalBudgetProp(r) ==
    IF r.hasBudgetResult /\ r.budgetResult.ok
    THEN Num(r.budgetResult.total_budget)
    ELSE Absent

\* The card's props and useState cells; loads counts the /bto-data fetches
\* in flight, autoRuns the times the auto-run effect has started a timer
\* since totalBudget last changed its value.
CardState(hd, ld, av, sb, il, er, hr, rs, ha, tb, na) ==
    [isLoading |-> il, error |-> er, totalBudget |-> tb, hasResults |-> hr,
     results |-> rs, hasDefaultBTO |-> hd, loads |-> ld, available |-> av,
     selectedBTOs |-> sb, hasAutoRun |-> ha, autoRuns |-> na]

CardIdle ==
    CardState(FALSE, 0, FALSE, <<>>, FALSE, "none", FALSE, <<>>, FALSE, Absent, 0)

\* After the mount, and after the page's second render (setBudgetLoading)
\* when there is one: the load effect has run once, and once more when
\* defaultBTO is an object (a new one each render).
CardMounted(hd, again) ==
    CardState(hd, IF hd /\ again THEN 2 ELSE 1, FALSE, <<>>, FALSE, "none",
              FALSE, <<>>, FALSE, Absent, 0)

\* What a checkAffordability callback closes over.
Closure(tb, sb) == [closureBudget |-> tb, closureBTOs |-> sb]

ClosureOf(c) == Closure(c.totalBudget, c.selectedBTOs)

\* A running checkAffordability: its closure and the request it awaits;
\* once POST /affordability is issued, the estimates received and the btos
\* sent in its body (total_budget is the closure's).
Flight(cl, sg, eo, es, bs) ==
    [btos |-> bs, estimates |-> es, closure |-> cl, stage |-> sg,
     estimatesOk |-> eo]

\* Selections the /bto-data answer leads to without a default BTO: every
\* project offering the selected flat type.
Selections == {<<>>, <<"Bedok">>, <<"Toa Payoh", "Bedok">>}

\* estimatedPrice of one /cost_estimates result.
EstimatePrices == {NaN, Num(450000)}

RemoveAt(sq, i) == [k \in 1..(Len(sq) - 1) |-> IF k < i THEN sq[k] ELSE sq[k + 1]]

\* The auto-run effect's condition.
autoRunFires(c) ==
    /\ ~c.totalBudget.nan
    /\ c.totalBudget.val > 0
    /\ Len(c.selectedBTOs) > 0
    /\ ~c.hasAutoRun
    /\ ~c.isLoading

\* The auto-run effect: setHasAutoRun(true) and a 100 ms timer holding the
\* checkAffordability of this render.
afterAutoRun(c) ==
    IF autoRunFires(c) THEN [c EXCEPT !.hasAutoRun = TRUE, !.autoRuns = @ + 1]
    ELSE c

timersAfterAutoRun(c, ts) ==
    IF autoRunFires(c) THEN Append(ts, ClosureOf(c)) ELSE ts

\* pageRender with the auto-run flag reset by every render the page causes,
\* whether or not the budget has a new value.
pageRender_resetsEachRender(c, tb) ==
    LET c1 == [c EXCEPT !.totalBudget = tb, !.hasAutoRun = FALSE,
                        !.loads = IF c.hasDefaultBTO THEN @ + 1 ELSE @]
        c2 == IF tb # c.totalBudget
              THEN [c1 EXCEPT !.hasResults = FALSE, !.results = <<>>,
                              !.error = "none", !.autoRuns = 0]
              ELSE c1
    IN  IF ~IsFalsyNumber(tb) /\ c.hasDefaultBTO /\ Len(c.selectedBTOs) = 0
        THEN [c2 EXCEPT !.selectedBTOs = <<DefaultBTOName>>]
        ELSE c2

\* The effects of a render caused by the page: the load effect (defaultBTO is
\* a new object), the budget-change effect, the defaultBTO effect.
pageRender(c, tb) ==
    LET c1 == [c EXCEPT !.totalBudget = tb,
                        !.loads = IF c.hasDefaultBTO THEN @ + 1 ELSE @]
        c2 == IF tb # c.totalBudget
              THEN [c1 EXCEPT !.hasResults = FALSE, !.results = <<>>,
                              !.error = "none", !.hasAutoRun = FALSE,
                              !.autoRuns = 0]
              ELSE c1
    IN  IF ~IsFalsyNumber(tb) /\ c.hasDefaultBTO /\ Len(c.selectedBTOs) = 0
        THEN [c2 EXCEPT !.selectedBTOs = <<DefaultBTOName>>]
        ELSE c2

\* checkAffordability up to its first await.
checkSendsEstimates(cl) ==
    ~IsFalsyNumber(cl.closureBudget) /\ Len(cl.closureBTOs) > 0

checkStart(c, cl) ==
    IF IsFalsyNumber(cl.closureBudget) THEN [c EXCEPT !.error = "budgetFirst"]
    ELSE IF Len(cl.closureBTOs) = 0 THEN [c EXCEPT !.error = "addBTO"]
    ELSE [c EXCEPT !.isLoading = TRUE, !.error = "none",
                   !.hasResults = FALSE, !.results = <<>>]

\* catch and finally.
checkFailed(c) == [c EXCEPT !.error = "failed", !.isLoading = FALSE]

\* setResults(data.results) and finally.
checkSucceeded(c, rs) ==
    [c EXCEPT !.hasResults = TRUE, !.results = rs, !.isLoading = FALSE]

\* Object.values(estJson.results): one estimate per selection, the price
\* being the estimator's for that project.
estimatesFor(sb, prices) == [k \in 1..Len(sb) |-> Listing(sb[k], prices[sb[k]])]

Rerender(c1) ==
    /\ card' = afterAutoRun(c1)
    /\ timers' = timersAfterAutoRun(c1, timers)

\* The page's POST /budget is answered.
BudgetResponse(data) ==
    /\ resultsPage.budgetPending
    /\ resultsPage' = IF data = NetworkError
                      THEN budgetCatch(resultsPage)
                      ELSE budgetThen(resultsPage, data)
    /\ Rerender(pageRender(card, totalBudgetProp(resultsPage')))
    /\ UNCHANGED <<budgetVars, affordVars, transportVars, pureVars, flights>>

\* The earlier Results page, which shows a BudgetCard: the incomes entered
\* there, each at least the one before.
RecalcIncomes == {0, 6000, 9000}

\* onBudgetCalculated={setBudgetData}
setBudgetData(r, data) ==
    [r EXCEPT !.hasBudgetResult = TRUE, !.budgetResult = data]

\* BudgetCard's calculateBudget got an OK response and hands it to the page,
\* which renders again with totalBudget={budgetData?.total_budget}.
OnBudgetCalculated(data) ==
    /\ page = "ResultsWithBudgetCard"
    /\ data.ok
    /\ resultsPage.hasBudgetResult
          => data.total_budget >= resultsPage.budgetResult.total_budget
    /\ resultsPage' = setBudgetData(resultsPage, data)
    /\ Rerender(pageRender(card, totalBudgetProp(resultsPage')))
    /\ UNCHANGED <<budgetVars, affordVars, transportVars, pureVars, flights>>

\* A /bto-data fetch is answered.
LoadBTODataResponse(ok, sb) ==
    /\ card.loads > 0
    /\ Rerender(IF ok
                THEN [card EXCEPT !.loads = @ - 1, !.available = TRUE,
                        !.selectedBTOs = IF card.hasDefaultBTO
                                         THEN <<DefaultBTOName>> ELSE sb]
                ELSE [card EXCEPT !.loads = @ - 1, !.error = "loadFailed"])
    /\ UNCHANGED <<budgetVars, affordVars, transportVars, pureVars, resultsPage, flights>>

\* The user adds a BTO from the loaded projects.
AddBTO(nm) ==
    /\ card.available
    /\ Len(card.selectedBTOs) < MaxListings
    /\ Rerender([card EXCEPT !.selectedBTOs = Append(@, nm), !.error = "none"])
    /\ UNCHANGED <<budgetVars, affordVars, transportVars, pureVars, resultsPage, flights>>

\* The user removes the i-th selected BTO.
RemoveBTO(i) ==
    /\ i \in 1..Len(card.selectedBTOs)
    /\ Rerender([card EXCEPT !.selectedBTOs = RemoveAt(@, i),
                             !.hasResults = FALSE, !.results = <<>>])
    /\ UNCHANGED <<budgetVars, affordVars, transportVars, pureVars, resultsPage, flights>>

\* disabled={isLoading || !totalBudget}
checkButtonDisabled(c) == c.isLoading \/ IsFalsyNumber(c.totalBudget)

\* The Check Affordability button: rendered with a selection, disabled while
\* loading or without a budget.
ClickCheckAffordability ==
    /\ Len(card.selectedBTOs) > 0
    /\ ~checkButtonDisabled(card)
    /\ Rerender(checkStart(card, ClosureOf(card)))
    /\ flights' = IF checkSendsEstimates(ClosureOf(card))
                  THEN Append(flights, Flight(ClosureOf(card), "estimates", FALSE, <<>>, <<>>))
                  ELSE flights
    /\ UNCHANGED <<budgetVars, affordVars, transportVars, pureVars, resultsPage>>

\* The 100 ms timer of the auto-run effect calls the checkAffordability it holds.
AutoRunTimerFires ==
    /\ Len(timers) > 0
    /\ LET cl == Head(timers)
           c1 == checkStart(card, cl)
       IN  /\ card' = afterAutoRun(c1)
           /\ timers' = timersAfterAutoRun(c1, Tail(timers))
           /\ flights' = IF checkSendsEstimates(cl)
                         THEN Append(flights, Flight(cl, "estimates", FALSE, <<>>, <<>>))
                         ELSE flights
    /\ UNCHANGED <<budgetVars, affordVars, transportVars, pureVars, resultsPage>>

\* POST /cost_estimates of the i-th running check is answered.
EstimatesResponse(i, ok, prices) ==
    /\ i \in 1..Len(flights)
    /\ flights[i].stage = "estimates"
    /\ LET cl == flights[i].closure
           es == estimatesFor(cl.closureBTOs, prices)
       IN  IF ~ok \/ Len(btosWithPrices(es)) = 0
           THEN /\ Rerender(checkFailed(card))
                /\ flights' = RemoveAt(flights, i)
           ELSE /\ flights' = [flights EXCEPT
                                 ![i] = Flight(cl, "affordability", ok, es,
                                               btosWithPrices(es))]
                /\ UNCHANGED <<card, timers>>
    /\ UNCHANGED <<budgetVars, affordVars, transportVars, pureVars, resultsPage>>

\* POST /affordability of the i-th running check is answered.
AffordabilityResponse(i, ok) ==
    /\ i \in 1..Len(flights)
    /\ flights[i].stage = "affordability"
    /\ Rerender(IF ok
                THEN checkSucceeded(card,
                        post_affordability(flights[i].closure.closureBudget.val,
                                           flights[i].btos))
                ELSE checkFailed(card))
    /\ flights' = RemoveAt(flights, i)
    /\ UNCHANGED <<budgetVars, affordVars, transportVars, pureVars, resultsPage>>

----------------------------------------------------------------------------
(* Results page with its TransportCard                                     *)

ALL_VALUE == "__ALL__"

\* formData.transport of the navigation state.
DestinationPostal == "018956"

TimePeriod == "Morning Peak"

\* The autoRun prop: undefined, or the destination and time period.
AutoRun(df, dp, tp) == [defined |-> df, destinationPostal |-> dp, timePeriod |-> tp]

NoAutoRun == AutoRun(FALSE, "", "")

\* The autoRun prop for what the popup was submitted with: onSubmit puts
\* formData.transport only when btoProject, destinationPostal and timePeriod
\* are all truthy, and the page passes autoRun only when it is there.
formDataTransport(bp, dp, tp) ==
    IF bp # "" /\ dp # "" /\ tp # "" THEN AutoRun(TRUE, dp, tp) ELSE NoAutoRun

\* What an onQuery closes over: the form cells of the render it belongs to.
QueryClosure(nm, po, pe) == [name |-> nm, postal |-> po, period |-> pe]

\* A transport request in flight: its parameters, whether a click issued it,
\* whether it repeats a request that failed, having been set off after
\* the failure with no user action in between, and which handler awaits it
\* (onQuery, runComparison or clearComparison).
TransportRequest(q, bu, ri, kd) ==
    [query |-> q, byUser |-> bu, reissued |-> ri, handler |-> kd]

\* The request that failed last, until the next user action.
FailedRequest(fl, q) == [failed |-> fl, query |-> q]

\* A timer of the auto-run effect: the onQuery it holds, and whether a
\* request had failed (with no user action since) when it was started.
QueryTimer(q, af) == [query |-> q, afterFailure |-> af]

NoFailedRequest == FailedRequest(FALSE, QueryClosure("", "", ""))

\* The card's props and useState cells, the timers of the auto-run effect
\* not yet fired, the requests awaiting a response (a bag: they are answered
\* in any order).
TransportState(bp, ar, nm, po, pe, il, er, sd, ad, ha, pt, rq, lf, ct, cr, ap) ==
    [isLoading |-> il, error |-> er, name |-> nm, hasAutoRun |-> ha,
     postal |-> po, period |-> pe, btoProject |-> bp, autoRun |-> ar,
     singleData |-> sd, allData |-> ad, pendingTimers |-> pt,
     requests |-> rq, lastFailed |-> lf, compareTargets |-> ct,
     compareResult |-> cr, analyzedProjects |-> ap]

TransportIdle ==
    TransportState("", NoAutoRun, "", "", "", FALSE, "none", "", FALSE, FALSE,
                   <<>>, EmptyBag, NoFailedRequest, <<>>, FALSE, <<>>)

\* useState initial values: name is btoProject ?? "".
transportInitial(bp, ar) ==
    TransportState(bp, ar, bp, "", "", FALSE, "none", "", FALSE, FALSE,
                   <<>>, EmptyBag, NoFailedRequest, <<>>, FALSE, <<>>)

\* Array.prototype.includes
includes(arr, x) == \E i \in 1..Len(arr) : arr[i] = x

\* The auto-run effect's condition.
transportAutoRunFires(t) ==
    /\ t.autoRun.defined
    /\ t.autoRun.destinationPostal # ""
    /\ t.autoRun.timePeriod # ""
    /\ ~t.hasAutoRun
    /\ ~t.isLoading

\* The auto-run effect: fills the form and starts a 500 ms timer holding the
\* onQuery of the render the effect belongs to (the form as it was).
transportAutoRun(t) ==
    IF transportAutoRunFires(t)
    THEN [t EXCEPT !.hasAutoRun = TRUE,
                   !.postal = t.autoRun.destinationPostal,
                   !.period = t.autoRun.timePeriod,
                   !.name = IF t.btoProject # "" THEN t.btoProject ELSE ALL_VALUE,
                   !.pendingTimers =
                        Append(@, QueryTimer(QueryClosure(t.name, t.postal, t.period),
                                             t.lastFailed.failed))]
    ELSE t

\* A render caused by the page: autoRun, when given, is a new object, so the
\* reset effect runs; then the auto-run effect.
transportPageRender(t) ==
    transportAutoRun(IF t.autoRun.defined THEN [t EXCEPT !.hasAutoRun = FALSE]
                                         ELSE t)

\* canQuery of the render a closure belongs to.
canQuery(q) ==
    (q.name = ALL_VALUE \/ q.name # "") /\ q.postal # "" /\ q.period # ""

\* onQuery up to its await; bu: called from the Query button, af: called
\* from a timer started after a failure.
onQuery(t, q, bu, af) ==
    IF ~canQuery(q) THEN t
    ELSE [t EXCEPT !.isLoading = TRUE, !.error = "none", !.singleData = "",
                   !.allData = FALSE, !.compareResult = FALSE,
                   !.requests = @ (+) SetToBag({TransportRequest(q, bu,
                        af /\ t.lastFailed = FailedRequest(TRUE, q), "onQuery")})]

\* onQuery recording every answered query, the one for all BTOs too, as an
\* analyzed project.
onQueryDone_recordsAll(t, q, ok) ==
    IF ~ok THEN [t EXCEPT !.error = "failed", !.isLoading = FALSE,
                          !.lastFailed = FailedRequest(TRUE, q)]
    ELSE [t EXCEPT !.singleData = q.name, !.isLoading = FALSE,
                   !.analyzedProjects = IF includes(@, q.name) THEN @
                                        ELSE Append(@, q.name)]

\* onQuery after its await: the data or the error, then finally.
onQueryDone(t, q, ok) ==
    IF ~ok THEN [t EXCEPT !.error = "failed", !.isLoading = FALSE,
                          !.lastFailed = FailedRequest(TRUE, q)]
    ELSE IF q.name = ALL_VALUE
    THEN [t EXCEPT !.allData = TRUE, !.isLoading = FALSE]
    ELSE [t EXCEPT !.singleData = q.name, !.isLoading = FALSE,
                   !.analyzedProjects = IF includes(@, q.name) THEN @
                                        ELSE Append(@, q.name)]

\* addCompareTarget of the current render.
addCompareTarget(t) ==
    IF t.name = "" \/ t.name = ALL_VALUE THEN t
    ELSE IF ~includes(t.analyzedProjects, t.name)
    THEN [t EXCEPT !.error = "Analyze this BTO first"]
    ELSE IF includes(t.compareTargets, t.name) THEN t
    ELSE [t EXCEPT !.compareTargets = Append(@, t.name)]

\* removeCompareTarget: prev.filter((t) => t !== target)
removeCompareTarget(t, target) ==
    [t EXCEPT !.compareTargets = SelectSeq(@, LAMBDA x : x # target)]

\* Array.from(new Set(compareTargets))
uniqueTargets(arr) == {arr[i] : i \in 1..Len(arr)}

\* cmpParams: all that the POST /compare_btos carries, destination_address
\* and time_period; it has no project name and no body.
cmpParams(t) == QueryClosure("", t.postal, t.period)

\* runComparison up to its await.
runComparison(t) ==
    IF t.postal = "" \/ t.period = "" THEN t
    ELSE IF Cardinality(uniqueTargets(t.compareTargets)) < 2
    THEN [t EXCEPT !.error = "Add at least 2"]
    ELSE IF \E x \in uniqueTargets(t.compareTargets) :
                ~includes(t.analyzedProjects, x)
    THEN [t EXCEPT !.error = "Analyze first"]
    ELSE [t EXCEPT !.isLoading = TRUE, !.error = "none", !.singleData = "",
                   !.allData = FALSE, !.compareResult = FALSE,
                   !.requests = @ (+) SetToBag({TransportRequest(
                        cmpParams(t), TRUE, FALSE, "runComparison")})]

\* runComparison after its await.
runComparisonDone(t, ok) ==
    IF ok THEN [t EXCEPT !.compareResult = TRUE, !.isLoading = FALSE]
    ELSE [t EXCEPT !.error = "failed", !.isLoading = FALSE]

\* clearComparison up to its await.
clearComparison(t) ==
    [t EXCEPT !.isLoading = TRUE, !.error = "none",
              !.requests = @ (+) SetToBag({TransportRequest(
                   QueryClosure("", "", ""), TRUE, FALSE, "clearComparison")})]

\* clearComparison after its await; ok: fetch resolved (whatever the
\* status, which is not looked at), otherwise it rejected.
clearComparisonDone(t, ok) ==
    IF ok THEN [t EXCEPT !.compareResult = FALSE, !.isLoading = FALSE]
    ELSE [t EXCEPT !.error = "failed", !.isLoading = FALSE]

\* The items of the project Select.
TransportNames == {"Toa Payoh", "Bedok", ALL_VALUE}

\* What is typed into the postal code input.
TransportPostals == {DestinationPostal}

\* The items of the time period Select.
TransportPeriods == {TimePeriod}

\* The page's POST /budget is answered and the page renders again.
BudgetResponseTransport(data) ==
    /\ resultsPage.budgetPending
    /\ resultsPage' = IF data = NetworkError
                      THEN budgetCatch(resultsPage)
                      ELSE budgetThen(resultsPage, data)
    /\ transport' = transportPageRender(transport)
    /\ UNCHANGED <<budgetVars, affordVars, pureVars, card, timers, flights>>

\* The user edits the form.
SetName(nm) ==
    /\ transport' = [transport EXCEPT !.name = nm, !.lastFailed = NoFailedRequest]
    /\ nm # transport.name
    /\ UNCHANGED <<budgetVars, affordVars, uiVars, pureVars>>

SetPostal(po) ==
    /\ transport' = [transport EXCEPT !.postal = po, !.lastFailed = NoFailedRequest]
    /\ po # transport.postal
    /\ UNCHANGED <<budgetVars, affordVars, uiVars, pureVars>>

SetPeriod(pe) ==
    /\ transport' = [transport EXCEPT !.period = pe, !.lastFailed = NoFailedRequest]
    /\ pe # transport.period
    /\ UNCHANGED <<budgetVars, affordVars, uiVars, pureVars>>

\* The Query button: disabled={!canQuery || isLoading}
ClickQuery ==
    /\ canQuery(QueryClosure(transport.name, transport.postal, transport.period))
    /\ ~transport.isLoading
    /\ transport' = transportAutoRun(
          onQuery([transport EXCEPT !.lastFailed = NoFailedRequest],
                  QueryClosure(transport.name, transport.postal, transport.period),
                  TRUE, FALSE))
    /\ UNCHANGED <<budgetVars, affordVars, uiVars, pureVars>>

\* A 500 ms timer of the auto-run effect calls the onQuery it holds.
TransportTimerFires ==
    /\ Len(transport.pendingTimers) > 0
    /\ transport' = transportAutoRun(
          onQuery([transport EXCEPT !.pendingTimers = Tail(@)],
                  Head(transport.pendingTimers).query, FALSE,
                  Head(transport.pendingTimers).afterFailure))
    /\ UNCHANGED <<budgetVars, affordVars, uiVars, pureVars>>

\* The "Add to Compare" button: disabled={!name || name === ALL_VALUE ||
\* isLoading || !analyzedProjects.includes(name)}
AddCompareTarget ==
    /\ transport.name # ""
    /\ transport.name # ALL_VALUE
    /\ ~transport.isLoading
    /\ includes(transport.analyzedProjects, transport.name)
    /\ ~includes(transport.compareTargets, transport.name)
    /\ transport' = addCompareTarget(
                        [transport EXCEPT !.lastFailed = NoFailedRequest])
    /\ UNCHANGED <<budgetVars, affordVars, uiVars, pureVars>>

\* The remove button of a compare target.
RemoveCompareTarget(target) ==
    /\ includes(transport.compareTargets, target)
    /\ transport' = removeCompareTarget(
                        [transport EXCEPT !.lastFailed = NoFailedRequest], target)
    /\ UNCHANGED <<budgetVars, affordVars, uiVars, pureVars>>

\* The Compare button: rendered when compareTargets is non-empty,
\* disabled={isLoading || compareTargets.length === 0 || !postal || !period}
ClickCompare ==
    /\ ~transport.isLoading
    /\ Len(transport.compareTargets) > 0
    /\ transport.postal # ""
    /\ transport.period # ""
    /\ transport' = transportAutoRun(runComparison(
                        [transport EXCEPT !.lastFailed = NoFailedRequest]))
    /\ UNCHANGED <<budgetVars, affordVars, uiVars, pureVars>>

\* The Clear Comparison button: rendered when compareTargets is non-empty,
\* disabled={isLoading}
ClickClearComparison ==
    /\ ~transport.isLoading
    /\ Len(transport.compareTargets) > 0
    /\ transport' = transportAutoRun(clearComparison(
                        [transport EXCEPT !.lastFailed = NoFailedRequest]))
    /\ UNCHANGED <<budgetVars, affordVars, uiVars, pureVars>>

\* A transport request in flight is answered.
TransportResponse(rq, ok) ==
    /\ BagIn(rq, transport.requests)
    /\ LET rest == [transport EXCEPT !.requests = @ (-) SetToBag({rq})]
       IN  transport' = transportAutoRun(
              IF rq.handler = "onQuery" THEN onQueryDone(rest, rq.query, ok)
              ELSE IF rq.handler = "runComparison" THEN runComparisonDone(rest, ok)
              ELSE clearComparisonDone(rest, ok))
    /\ UNCHANGED <<budgetVars, affordVars, uiVars, pureVars>>

----------------------------------------------------------------------------
(* The two endpoints called repeatedly, with and without a session id      *)

\* The total_budget taken from what the session holds instead of the body.
affordabilityBudget_fromSession(bodyTotal, sessionTotal) ==
    IF sessionTotal.nan THEN bodyTotal ELSE sessionTotal

\* The total_budget the comparator works with is the one of the body; the
\* session id carries no logic.
affordabilityBudget(bodyTotal, sessionTotal) == bodyTotal

\* A request: which endpoint, whether a session_id is attached, the body.
ServiceRequest(ep, ws, bd, tb, bs) ==
    [total_budget |-> tb, body |-> bd, btos |-> bs, endpoint |-> ep,
     withSession |-> ws]

\* A request with its answer.
ServiceCall(rq, ba, ao, ar) ==
    [request |-> rq, budgetAnswer |-> ba, affordabilityOk |-> ao,
     affordabilityResults |-> ar]

NoServiceCall ==
    ServiceCall(ServiceRequest("none", FALSE, NoBody, Absent, <<>>),
                BudgetFailure, FALSE, <<>>)

\* POST /budget answered.
budgetCall(rq) == ServiceCall(rq, compute_total_budget(rq.body), FALSE, <<>>)

\* POST /affordability answered; sessionTotal is the budget kept for the session.
affordabilityCall(rq, sessionTotal) ==
    LET tb == affordabilityBudget(rq.total_budget, sessionTotal)
    IN  IF ~ValidAmount(tb)
        THEN ServiceCall(rq, BudgetFailure, FALSE, <<>>)
        ELSE ServiceCall(rq, BudgetFailure, TRUE, post_affordability(tb.val, rq.btos))

\* The session after POST /budget: the budget computed is kept under the id.
sessionAfterBudget(sessionTotal, c) ==
    IF c.request.withSession /\ c.budgetAnswer.ok
    THEN Num(c.budgetAnswer.total_budget)
    ELSE sessionTotal

\* latest: the call just answered; remembered: an earlier call; between:
\* other calls were answered after remembered and before latest.
ServiceState(st, lc, rc, bt) ==
    [sessionTotal |-> st, latest |-> lc, remembered |-> rc, between |-> bt]

ServiceInit == ServiceState(Absent, NoServiceCall, NoServiceCall, FALSE)

\* The form contents of BudgetCard the repeated calls are made with.
PureForms ==
    {[monthlyIncome |-> NumField(i), cpfSavings |-> NumField(15000),
      cashSavings |-> NumField(c)] : i \in {-9000, 0, 9000}, c \in {0, 50000}}

\* The estimates a repeated affordability check starts from.
PureEstimates ==
    {<<>>,
     <<Listing("Bedok", Num(450000))>>,
     <<Listing("Toa Payoh", NaN), Listing("Bedok", Num(520000))>>}

PureBudgets == {Absent, Num(450000), Num(500000)}

\* After a call: the earlier call is kept, or replaced by the one before this.
serviceAfter(sv, c, st, keep) ==
    IF keep
    THEN ServiceState(st, c, sv.remembered, sv.remembered.request.endpoint # "none")
    ELSE ServiceState(st, c, sv.latest, FALSE)

\* BudgetCard's request (or the same body with a session_id) is answered.
CallBudget(form, ws, keep) ==
    /\ LET c == budgetCall(ServiceRequest("budget", ws, calculateBudgetBody(form),
                                          Absent, <<>>))
       IN  service' = serviceAfter(service, c,
                          sessionAfterBudget(service.sessionTotal, c), keep)
    /\ UNCHANGED <<budgetVars, affordVars, uiVars, transportVars>>

\* AffordabilityCard's request (or the same body with a session_id) is answered.
CallAffordability(tb, estimates, ws, keep) ==
    /\ service' = serviceAfter(service,
                      affordabilityCall(
                          ServiceRequest("affordability", ws, NoBody, tb,
                                         btosWithPrices(estimates)),
                          service.sessionTotal),
                      service.sessionTotal, keep)
    /\ UNCHANGED <<budgetVars, affordVars, uiVars, transportVars>>

----------------------------------------------------------------------------
(* Specifications                                                          *)

InitBudget ==
    /\ page \in {"BudgetCard", "BTOEstimators", "api"}
    /\ bc = BudgetCardInit
    /\ est = EstimatorInit
    /\ picker = PickerIdle
    /\ api = ApiInit
    /\ call = CallInit
    /\ resultsPage = ResultsIdle
    /\ card = CardIdle
    /\ timers = <<>>
    /\ flights = <<>>
    /\ transport = TransportIdle
    /\ service = ServiceInit

NextBudget ==
    \/ \E f \in IncomeFields : SetMonthlyIncome(f)
    \/ \E f \in CpfFields : SetCpfSavings(f)
    \/ \E f \in CashFields : SetCashSavings(f)
    \/ CalculateBudget
    \/ CalculateBudgetResponse
    \/ \E fi \in IncomeFields \ {EmptyField, TextField},
          fc \in CashFields \ {EmptyField, TextField},
          fp \in CpfFields \ {EmptyField, TextField} :
            HandleBudgetEstimator(fi, fc, fp)
    \/ HandleBudgetEstimatorResponse
    \/ \E i \in BodyNumbers(IncomeValues), c \in BodyNumbers(CashValues),
          p \in BodyNumbers(CpfValues),
          r \in {Absent} \cup BodyNumbers(RetainValues) :
            PostBudget(BudgetBody(i, c, p, r))

SpecBudget == InitBudget /\ [][NextBudget]_vars

InitAfford ==
    /\ page = "none"
    /\ bc = BudgetCardInit
    /\ est = EstimatorInit
    /\ picker = PickerIdle
    /\ api = ApiInit
    /\ \E tb \in TotalBudgets, bt \in Batches, eo \in BOOLEAN, ao \in BOOLEAN :
          call = Unchecked(tb, bt, eo, ao)
    /\ resultsPage = ResultsIdle
    /\ card = CardIdle
    /\ timers = <<>>
    /\ flights = <<>>
    /\ transport = TransportIdle
    /\ service = ServiceInit

NextAfford ==
    \/ CheckAffordability
    \/ CheckAffordabilityEarlier
    \/ PostAffordability

SpecAfford == InitAfford /\ [][NextAfford]_vars

Init ==
    /\ page = "Results"
    /\ bc = BudgetCardInit
    /\ est = EstimatorInit
    /\ picker = PickerIdle
    /\ api = ApiInit
    /\ call = CallInit
    /\ \/ resultsPage = ResultsIdle
       \/ \E fi \in FormIncomes, fc \in FormCash, fp \in FormCpf :
             resultsPage = ResultsMounted(resultsBudgetBody(fi, fc, fp))
    /\ \E hd \in BOOLEAN : card = CardMounted(hd, resultsPage.budgetPending)
    /\ transport = TransportIdle
    /\ service = ServiceInit
    /\ timers = <<>>
    /\ flights = <<>>

Next ==
    \/ \E data \in {compute_total_budget(resultsPage.formBudget), NetworkError} :
          BudgetResponse(data)
    \/ \E ok \in BOOLEAN, sb \in Selections : LoadBTODataResponse(ok, sb)
    \/ \E nm \in ListingNames : AddBTO(nm)
    \/ \E i \in 1..MaxListings : RemoveBTO(i)
    \/ ClickCheckAffordability
    \/ AutoRunTimerFires
    \/ \E i \in 1..Len(flights), ok \in BOOLEAN :
          \E prices \in [ListingNames -> EstimatePrices] :
             EstimatesResponse(i, ok, prices)
    \/ \E i \in 1..Len(flights), ok \in BOOLEAN : AffordabilityResponse(i, ok)

Spec == Init /\ [][Next]_vars

\* The earlier Results page: no budget request of its own, a BudgetCard the
\* user recalculates with, the same AffordabilityCard, reached without a
\* chosen project; the selection is the one /bto-data leads to, less what the
\* user removes.
InitRecalc ==
    /\ page = "ResultsWithBudgetCard"
    /\ bc = BudgetCardInit
    /\ est = EstimatorInit
    /\ picker = PickerIdle
    /\ api = ApiInit
    /\ call = CallInit
    /\ resultsPage = ResultsIdle
    /\ card = CardMounted(FALSE, FALSE)
    /\ transport = TransportIdle
    /\ service = ServiceInit
    /\ timers = <<>>
    /\ flights = <<>>

NextRecalc ==
    \/ \E fi \in RecalcIncomes, fc \in FormCash, fp \in FormCpf :
          OnBudgetCalculated(compute_total_budget(resultsBudgetBody(fi, fc, fp)))
    \/ \E ok \in BOOLEAN, sb \in Selections : LoadBTODataResponse(ok, sb)
    \/ \E i \in 1..MaxListings : RemoveBTO(i)
    \/ ClickCheckAffordability
    \/ AutoRunTimerFires
    \/ \E i \in 1..Len(flights), ok \in BOOLEAN :
          \E prices \in [ListingNames -> EstimatePrices] :
             EstimatesResponse(i, ok, prices)
    \/ \E i \in 1..Len(flights), ok \in BOOLEAN : AffordabilityResponse(i, ok)

SpecRecalc == InitRecalc /\ [][NextRecalc]_vars

\* The page is reached from the popup with a chosen project (budget and
\* transport data), from the popup without one (budget only), or without
\* form data.
InitTransport ==
    /\ page = "Results"
    /\ service = ServiceInit
    /\ bc = BudgetCardInit
    /\ est = EstimatorInit
    /\ picker = PickerIdle
    /\ api = ApiInit
    /\ call = CallInit
    /\ card = CardIdle
    /\ timers = <<>>
    /\ flights = <<>>
    /\ \/ /\ resultsPage = ResultsIdle
          /\ transport = transportAutoRun(transportInitial("", NoAutoRun))
       \/ \E fi \in {x \in FormIncomes : x > 0}, fc \in FormCash, fp \in FormCpf,
             bp \in {"", "Toa Payoh"} :
             /\ resultsPage = ResultsMounted(resultsBudgetBody(fi, fc, fp))
             /\ transport = transportPageRender(transportAutoRun(
                    transportInitial(bp,
                        formDataTransport(bp, DestinationPostal, TimePeriod))))

NextTransport ==
    \/ \E data \in {compute_total_budget(resultsPage.formBudget), NetworkError} :
          BudgetResponseTransport(data)
    \/ \E nm \in TransportNames : SetName(nm)
    \/ \E po \in TransportPostals : SetPostal(po)
    \/ \E pe \in TransportPeriods : SetPeriod(pe)
    \/ ClickQuery
    \/ TransportTimerFires
    \/ AddCompareTarget
    \/ \E target \in TransportNames : RemoveCompareTarget(target)
    \/ ClickCompare
    \/ ClickClearComparison
    \/ \E rq \in BagToSet(transport.requests), ok \in BOOLEAN :
          TransportResponse(rq, ok)

SpecTransport == InitTransport /\ [][NextTransport]_vars

InitPure ==
    /\ page = "api"
    /\ bc = BudgetCardInit
    /\ est = EstimatorInit
    /\ picker = PickerIdle
    /\ api = ApiInit
    /\ call = CallInit
    /\ resultsPage = ResultsIdle
    /\ card = CardIdle
    /\ timers = <<>>
    /\ flights = <<>>
    /\ transport = TransportIdle
    /\ service = ServiceInit

NextPure ==
    \/ \E form \in PureForms, ws \in BOOLEAN, keep \in BOOLEAN :
          CallBudget(form, ws, keep)
    \/ \E tb \in PureBudgets, es \in PureEstimates, ws \in BOOLEAN, keep \in BOOLEAN :
          CallAffordability(tb, es, ws, keep)

SpecPure == InitPure /\ [][NextPure]_vars

\* BTOEstimators after its mount, the listings being loaded.
InitSelection ==
    /\ page = "BTOEstimators"
    /\ bc = BudgetCardInit
    /\ est = EstimatorInit
    /\ api = ApiInit
    /\ picker = PickerMounted
    /\ call = CallInit
    /\ resultsPage = ResultsIdle
    /\ card = CardIdle
    /\ timers = <<>>
    /\ flights = <<>>
    /\ transport = TransportIdle
    /\ service = ServiceInit

NextSelection ==
    \/ \E ok \in BOOLEAN, cat \in Catalogues : LoadBtoListingsResponse(ok, cat)
    \/ RefreshListings
    \/ \E i \in 1..Len(picker.btoListings) : ToggleSelect(i)
    \/ \E ft \in {""} \cup flatTypeOptions(picker.btoListings) :
          SetSelectedFlatType(ft)
    \/ \E ok \in BOOLEAN : SaveSelection(ok)

SpecSelection == InitSelection /\ [][NextSelection]_vars

----------------------------------------------------------------------------
(* Claims checked under SpecBudget                                         *)

\* The body of a budget request has a field that is negative or not a number.
BodyInvalid(req) ==
    \/ req.household_income.nan \/ req.household_income.val < 0
    \/ req.cash_savings.nan \/ req.cash_savings.val < 0
    \/ req.cpf_savings.nan \/ req.cpf_savings.val < 0
    \/ /\ req.retain_oa_amount # Absent
       /\ (req.retain_oa_amount.nan \/ req.retain_oa_amount.val < 0)

\* C2: every budget result a client holds or shows satisfies
\* total_budget = cash_savings + cpf_used_in_budget + max_hdb_loan, with the
\* cash the user entered: for a direct POST /budget, for the budget BudgetCard
\* stored for the present form contents, and for the lines BTOEstimators shows.
C2_TotalIsSumOfComponents ==
    /\ (api.called /\ api.res.ok) =>
          api.res.total_budget = api.body.cash_savings.val
                + api.res.cpf_used_in_budget + api.res.max_hdb_loan
    /\ bc.stored =>
          bc.budget.total_budget = parseFloat(bc.cashSavings).val
                + bc.budget.cpf_used_in_budget + bc.budget.max_hdb_loan
    /\ est.shown = "budget" =>
          est.total = est.cash.val + est.cpfUsed + est.maxLoan

C2_Witness ==
    /\ bc.stored
    /\ bc.budget.max_hdb_loan > 0
    /\ bc.budget.cpf_used_in_budget > 0
    /\ parseFloat(bc.cashSavings).val > 0

\* C3: cpf_used_in_budget = max(cpf_savings - retain_oa_amount, 0), with
\* retain_oa_amount 20000 when the body gives none; it is 0 when cpf_savings <=
\* retain_oa_amount and never negative; and the fallback BTOEstimators would
\* show, Math.max(cpf - 20000, 0), equals the value the backend returned.
C3_CpfUsedIsClampedDifference ==
    /\ (api.called /\ api.res.ok) =>
          LET r == IF api.body.retain_oa_amount = Absent
                   THEN 20000 ELSE api.body.retain_oa_amount.val
              c == api.body.cpf_savings.val
          IN  /\ api.res.cpf_used_in_budget = (IF c > r THEN c - r ELSE 0)
              /\ api.res.cpf_used_in_budget >= 0
              /\ (c <= r => api.res.cpf_used_in_budget = 0)
    /\ bc.stored =>
          LET c == parseFloat(bc.cpfSavings).val
          IN  bc.budget.cpf_used_in_budget = (IF c > 20000 THEN c - 20000 ELSE 0)
    /\ est.shown = "budget" => cpfUsedFallback(est.cpf) = est.cpfUsed

C3_Witness ==
    /\ est.shown = "budget"
    /\ est.cpf.val < 20000
    /\ est.cpfUsed = 0

\* C8: a budget request with a negative or non-numeric field is answered with
\* a failure and no result is stored; household_income = 0 is accepted (the
\* request is sent, not dropped by the form's guard) and yields max_hdb_loan =
\* 0 and total_budget = cash_savings + cpf_used_in_budget.
C8_InvalidRejectedZeroIncomeAccepted ==
    /\ api.called =>
          /\ BodyInvalid(api.body) => ~api.res.ok
          /\ (~BodyInvalid(api.body) /\ api.body.household_income.val = 0) =>
                /\ api.res.ok
                /\ api.res.max_hdb_loan = 0
                /\ api.res.total_budget =
                      api.body.cash_savings.val + api.res.cpf_used_in_budget
    /\ bc.lastClick = "early" =>
          (bc.monthlyIncome = EmptyField \/ bc.cpfSavings = EmptyField
             \/ bc.cashSavings = EmptyField)
    /\ (bc.lastClick = "sent" /\ ~bc.pending /\ BodyInvalid(bc.body)) =>
          (bc.error /\ ~bc.stored)
    /\ (bc.stored /\ bc.monthlyIncome = NumField(0)) =>
          /\ bc.budget.max_hdb_loan = 0
          /\ bc.budget.total_budget =
                parseFloat(bc.cashSavings).val + bc.budget.cpf_used_in_budget

C8_Witness ==
    /\ bc.stored
    /\ bc.monthlyIncome = NumField(0)
    /\ bc.budget.max_hdb_loan = 0
    /\ bc.budget.total_budget > 0

----------------------------------------------------------------------------
(* Claims checked under SpecAfford                                         *)

\* The positions of a batch whose price is a number.
NumericPositions(bt) == {i \in 1..Len(bt) : ~bt[i].price.nan}

\* The check ran with a usable budget and both requests answered OK.
RanUnhindered(c) ==
    /\ c.version # "none"
    /\ ~IsFalsyNumber(c.totalBudget)
    /\ c.estOk
    /\ c.affOk

\* The collection of (name, price) pairs the check has to compare is empty:
\* nothing is selected, or (present card) no estimate carries a price.
NothingToCheck(c) ==
    \/ Len(c.batch) = 0
    \/ c.version = "present" /\ NumericPositions(c.batch) = {}

\* C1: for every listing checked against total_budget, shortfall is
\* price - total_budget when price > total_budget and 0 otherwise, the status
\* is "Affordable" exactly when the shortfall is 0 (so price <= total_budget
\* gives Affordable with shortfall exactly 0), and the red shortfall warning
\* of the card appears exactly on the results not marked Affordable.
C1_ShortfallAndStatus ==
    call.hasResults =>
        \A i \in 1..Len(call.results) :
            LET r == call.results[i]
                p == call.sent[i].price
                b == call.totalBudget.val
            IN  ~p.nan =>
                  /\ r.shortfall = (IF p.val > b THEN p.val - b ELSE 0)
                  /\ (r.affordability_status = "Affordable") <=> (r.shortfall = 0)
                  /\ (p.val <= b) =>
                        (r.affordability_status = "Affordable" /\ r.shortfall = 0)
                  /\ showsShortfallWarning(r) <=> ~markedAffordable(r)

C1_Witness ==
    /\ call.version = "present"
    /\ showsResults(call)
    /\ Len(call.results) = 2
    /\ call.sent[1].price.val = call.totalBudget.val
    /\ markedAffordable(call.results[1])
    /\ call.sent[2].price.val > call.totalBudget.val
    /\ showsShortfallWarning(call.results[2])

C6_OneVerdictPerListing ==
    call.hasResults =>
        /\ Len(call.results) = Len(call.sent)
        /\ (call.version = "present") =>
              Len(call.results) = Cardinality(NumericPositions(call.batch))
        /\ \A i \in 1..Len(call.sent) :
              /\ call.results[i].name = call.sent[i].name
              /\ call.results[i].price = call.sent[i].price
              /\ call.results[i] =
                    post_affordability(call.totalBudget.val, <<call.sent[i]>>)[1]
        /\ \A i, j \in 1..Len(call.sent) :
              (call.sent[i].price = call.sent[j].price) =>
                  /\ call.results[i].affordability_status =
                        call.results[j].affordability_status
                  /\ call.results[i].shortfall = call.results[j].shortfall

C6_Witness ==
    /\ call.version = "present"
    /\ call.hasResults
    /\ Len(call.results) = 2
    /\ call.sent[1].name # call.sent[2].name
    /\ call.sent[1].price.val = 0
    /\ call.results[1].affordability_status = "Affordable"
    /\ call.results[2].affordability_status = "Not Affordable"

----------------------------------------------------------------------------
(* Claims checked under Spec                                               *)

\* C7: when the page's POST /budget fails (network error or non-OK
\* response), an error is recorded, the response is not stored as the budget
\* result, the box does not show a successfully calculated budget, and no
\* total_budget from it reaches the AffordabilityCard.
C7_FailureNeverStoredAsSuccess ==
    (resultsPage.answered \in {"rejected", "network"}) =>
        /\ resultsPage.budgetError
        /\ ~resultsPage.hasBudgetResult
        /\ budgetDisplay(resultsPage) # "success"
        /\ totalBudgetProp(resultsPage) = Absent
        /\ card.totalBudget = Absent

\* C9: a POST /affordability is in flight only with a total budget obtained
\* from an OK answer of /budget for the page's inputs, after the POST
\* /cost_estimates of the same check answered OK with at least one numeric
\* estimatedPrice, and its btos are exactly the estimates with a numeric
\* price; no check is running while totalBudget is absent.
C9_BudgetThenEstimatesThenAffordability ==
    /\ (card.totalBudget = Absent) => (Len(flights) = 0)
    /\ \A i \in 1..Len(flights) :
          LET f == flights[i]
          IN  /\ ~IsFalsyNumber(f.closure.closureBudget)
              /\ resultsPage.answered = "ok"
              /\ resultsPage.budgetResult.ok
              /\ f.closure.closureBudget.val = resultsPage.budgetResult.total_budget
              /\ resultsPage.budgetResult =
                    compute_total_budget(resultsPage.formBudget)
              /\ (f.stage = "affordability") =>
                    /\ f.estimatesOk
                    /\ Len(f.estimates) = Len(f.closure.closureBTOs)
                    /\ Len(f.btos) > 0
                    /\ \A k \in 1..Len(f.btos) : ~f.btos[k].price.nan
                    /\ f.btos = SelectSeq(f.estimates, LAMBDA e : ~e.price.nan)

C9_Witness ==
    \E i \in 1..Len(flights) :
        /\ flights[i].stage = "affordability"
        /\ Len(flights[i].estimates) = 2
        /\ flights[i].estimates[1].price.nan
        /\ Len(flights[i].btos) = 1
        /\ flights[i].btos[1].name = flights[i].estimates[2].name

\* C16: at most one checkAffordability (its cost_estimates and affordability
\* requests) is in flight at any time.
C16_OneCheckInFlight == Len(flights) <= 1

\* C17: results the card holds were computed for the current selection and
\* the current budget: every result is for a selected BTO, and is the
\* verdict on its price under the totalBudget the card has now.
C17_ResultsAreCurrent ==
    card.hasResults =>
        /\ ~card.totalBudget.nan
        /\ \A k \in 1..Len(card.results) :
               /\ \E j \in 1..Len(card.selectedBTOs) :
                      card.selectedBTOs[j] = card.results[k].name
               /\ card.results[k] = assess_affordability_with_budget(
                      card.totalBudget.val,
                      Listing(card.results[k].name, card.results[k].price))

----------------------------------------------------------------------------
(* Claims checked under SpecRecalc                                         *)

\* The auto-run effect's condition but for its own flag.
autoRunDue(c) ==
    /\ ~c.totalBudget.nan
    /\ c.totalBudget.val > 0
    /\ Len(c.selectedBTOs) > 0
    /\ ~c.isLoading

\* For the budget value the card holds, the auto-run effect has started its
\* timer at most once; it has started it whenever the budget is positive,
\* the selection non-empty and no check loading; it has not started it for a
\* budget that is absent or not positive; and every timer was started for a
\* positive budget and a non-empty selection.
AutoRunOnceForBudget ==
    /\ card.autoRuns <= 1
    /\ autoRunDue(card) => card.autoRuns = 1
    /\ card.autoRuns = 1 => (~card.totalBudget.nan /\ card.totalBudget.val > 0)
    /\ \A i \in 1..Len(timers) :
           /\ ~timers[i].closureBudget.nan
           /\ timers[i].closureBudget.val > 0
           /\ Len(timers[i].closureBTOs) > 0

----------------------------------------------------------------------------
(* Claims checked under SpecTransport                                      *)

\* C10: after a transport request has failed, the card never issues the same
\* request again on its own: no request in flight repeats a failed one
\* without a user action in between (the autoRun values never change).
C10_NoRetryAfterFailure ==
    \A rq \in BagToSet(transport.requests) : ~rq.reissued

\* C12: every onQuery call scheduled by the auto-run effect does something:
\* the onQuery a pending timer holds passes canQuery and carries the autoRun
\* destination and time period.
C12_ScheduledQueryIsNotNoOp ==
    \A i \in 1..Len(transport.pendingTimers) :
        LET q == transport.pendingTimers[i].query
        IN  /\ canQuery(q)
            /\ q.postal = transport.autoRun.destinationPostal
            /\ q.period = transport.autoRun.timePeriod

\* The requests in flight that a timer of the auto-run effect issued.
autoTriggered(t) ==
    [rq \in {r \in BagToSet(t.requests) : ~r.byUser} |-> t.requests[rq]]

\* C13: two auto-triggered queries are never in flight together.
C13_OneAutoTriggeredQueryInFlight ==
    BagCardinality(autoTriggered(transport)) <= 1

\* C14: the popup having been submitted (with its required destination and
\* time period) and no project chosen, the card is given autoRun.
C14_NoProjectAutoRunsAll ==
    (resultsPage.formBudget # NoBody /\ transport.btoProject = "")
        => transport.autoRun.defined

\* C18: isLoading is true exactly while an analyze, compare or
\* clear-comparison request is in flight.
C18_LoadingWhileRequestPending ==
    transport.isLoading <=> (BagCardinality(transport.requests) > 0)

\* C19: at most one of singleData, allData and compareResult is non-null.
C19_OneKindOfResult ==
    Cardinality({k \in {"singleData", "allData", "compareResult"} :
                    \/ k = "singleData" /\ transport.singleData # ""
                    \/ k = "allData" /\ transport.allData
                    \/ k = "compareResult" /\ transport.compareResult}) <= 1

\* C20: every compare target is an analyzed project, neither list holds the
\* ALL value, and runComparison never takes its "Analyze first" branch.
C20_TargetsAreAnalyzed ==
    /\ \A i \in 1..Len(transport.compareTargets) :
           includes(transport.analyzedProjects, transport.compareTargets[i])
    /\ ~includes(transport.compareTargets, ALL_VALUE)
    /\ ~includes(transport.analyzedProjects, ALL_VALUE)
    /\ transport.error # "Analyze first"

\* Two targets were added and runComparison got past its guards.
C20_Witness ==
    /\ Len(transport.compareTargets) = 2
    /\ \E rq \in BagToSet(transport.requests) : rq.handler = "runComparison"

\* C21: the comparison request covers the projects in compareTargets: a step
\* that adds a target to or removes one from the selection changes what
\* runComparison would send.
C21_RequestFollowsTargets ==
    [][uniqueTargets(transport'.compareTargets)
          # uniqueTargets(transport.compareTargets)
       => cmpParams(transport') # cmpParams(transport)]_vars

\* C23: whenever /budget has answered with a result and the card holds its
\* total_budget, the result can be used for a check: with a BTO selected and
\* nothing running, the Check Affordability button is enabled and
\* checkAffordability does not answer "calculate your budget first"; this
\* includes a total_budget of 0.
C23_EveryBudgetResultIsUsable ==
    (/\ resultsPage.hasBudgetResult
     /\ resultsPage.budgetResult.ok
     /\ card.totalBudget = totalBudgetProp(resultsPage)
     /\ Len(card.selectedBTOs) > 0
     /\ ~card.isLoading) =>
        /\ ~checkButtonDisabled(card)
        /\ checkStart(card, ClosureOf(card)).error # "budgetFirst"

----------------------------------------------------------------------------
(* Claims checked under SpecSelection                                      *)

\* byTown holds the selected items of listings and nothing else: each
\* selected item exactly once, under its town or "Unknown".
IsGrouping(byTown, listings, ids) ==
    /\ \A i \in 1..Len(listings) :
           listingId(listings[i]) \in ids =>
              /\ townKey(listings[i]) \in DOMAIN byTown
              /\ Cardinality({j \in 1..Len(byTown[townKey(listings[i])]) :
                     byTown[townKey(listings[i])][j] = minimal(listings[i])}) = 1
    /\ \A k \in DOMAIN byTown :
           /\ Len(byTown[k]) > 0
           /\ \A j \in 1..Len(byTown[k]) :
                  \E i \in 1..Len(listings) :
                     /\ listingId(listings[i]) \in ids
                     /\ townKey(listings[i]) = k
                     /\ minimal(listings[i]) = byTown[k][j]

\* What saveSelection would store is the grouping of the selection, and
\* toggling any listing twice gives the selection back.
SelectionInvariant ==
    /\ IsGrouping(selectedByTown(picker.btoListings, picker.selectedIds),
                  picker.btoListings, picker.selectedIds)
    /\ \A i \in 1..Len(picker.btoListings) :
           toggleSelect(toggleSelect(picker.selectedIds,
                                     listingId(picker.btoListings[i])),
                        listingId(picker.btoListings[i])) = picker.selectedIds

\* C22 as stated: once something is saved, the localStorage entry is there
\* and is the saved selection.
C22_AsStated ==
    DOMAIN picker.savedByTown # {} =>
        picker.written /\ picker.entry = stringify(picker.savedByTown)

\* C22: savedByTown changes only in a step that stores the grouping of the
\* selection of that moment (each selected listing once under its town or
\* "Unknown"); the localStorage entry changes only in such a step and then
\* is that grouping, but stays as it was when setItem throws; toggling,
\* changing the flat type or reloading changes neither; toggling twice
\* restores the selection.
C22_SavedOnlyBySaveSelection ==
    /\ []SelectionInvariant
    /\ [][/\ picker'.savedByTown # picker.savedByTown =>
              /\ picker'.savedByTown =
                    selectedByTown(picker.btoListings, picker.selectedIds)
              /\ picker'.selectedIds = picker.selectedIds
              /\ picker'.btoListings = picker.btoListings
          /\ (picker'.entry # picker.entry \/ picker'.written # picker.written) =>
              /\ picker'.written
              /\ picker'.savedByTown =
                    selectedByTown(picker.btoListings, picker.selectedIds)
              /\ picker'.entry = stringify(picker'.savedByTown)]_vars

\* Two listings saved under Bedok and one under Unknown, the entry written,
\* and the selection emptied afterwards.
C22_Witness ==
    /\ DOMAIN picker.savedByTown = {"Bedok", "Unknown"}
    /\ Len(picker.savedByTown["Bedok"]) = 2
    /\ picker.written
    /\ picker.entry = stringify(picker.savedByTown)
    /\ picker.selectedIds = {}
    /\ picker.selectedFlatType # ""

----------------------------------------------------------------------------
(* Claims checked under SpecPure                                           *)

\* Two requests have identical inputs: same endpoint and body, whatever the
\* session id.
SameInputs(r1, r2) ==
    /\ r1.endpoint = r2.endpoint
    /\ r1.body = r2.body
    /\ r1.total_budget = r2.total_budget
    /\ r1.btos = r2.btos

====
